---- MODULE Spec2Model ----
(***************************************************************************)
(* Model of the PDF outline extractor (round1a.py) and of the              *)
(* persona-driven section ranking pipeline (Challenge_1b/round1b.py).      *)
(*                                                                         *)
(* Text is a sequence of one-character strings, so that the regular        *)
(* expressions, str.strip, str.split, str.istitle, slicing and len of the  *)
(* Python source are computed character by character.  Relevance scores    *)
(* are fixed-point numbers in units of 1/10000 (One == 10000 is 1.0); the  *)
(* similarities the embedding model returns are multiples of 100 units, so *)
(* that the multiplications by 1.2 and 1.1 are exact.  Font sizes are in   *)
(* tenths of a point.                                                      *)
(***************************************************************************)
EXTENDS Integers, Sequences, FiniteSets, TLC

VARIABLES
    \* the embedding model: the texts a run can encode and, for each, its
    \* cosine similarity to the query "persona job"; fixed for the run
    embed,
    \* analyze_documents: its argument, position, locals and return value
    input_data, pc, doc_index, all_sections, top_sections,
    subsection_analysis, exc, result,
    \* history: all_sections as concatenated, before it is sorted in place
    concatenated,
    \* identify_sections run line by line: its argument, position and locals
    seg_pages, seg_pos, seg_state,
    \* history: what became of every non-blank line, and of every section opened
    seg_log, seg_ids, seg_dropped,
    \* a call of calculate_relevance_score, extract_subsections or
    \* classify_heading_level: function, arguments, and the value returned
    call, ret

pipeline_vars == <<input_data, pc, doc_index, all_sections, top_sections,
                   subsection_analysis, exc, result, concatenated>>

seg_vars == <<seg_pages, seg_pos, seg_state, seg_log, seg_ids, seg_dropped>>

call_vars == <<call, ret>>

vars == <<embed, pipeline_vars, seg_vars, call_vars>>

(***************************************************************************)
(* Characters and Python's str methods                                     *)
(***************************************************************************)
UpperSeq == <<"A","B","C","D","E","F","G","H","I","J","K","L","M",
              "N","O","P","Q","R","S","T","U","V","W","X","Y","Z">>

LowerSeq == <<"a","b","c","d","e","f","g","h","i","j","k","l","m",
              "n","o","p","q","r","s","t","u","v","w","x","y","z">>

UpperChars == {UpperSeq[i] : i \in DOMAIN UpperSeq}

LowerChars == {LowerSeq[i] : i \in DOMAIN LowerSeq}

DigitChars == {"0","1","2","3","4","5","6","7","8","9"}

SpaceChars == {" ", "\t", "\n", "\r"}

Letters == UpperChars \cup LowerChars

\* \w of the re module, on ASCII text
WordChars == UpperChars \cup LowerChars \cup DigitChars \cup {"_"}

None == "None"

Min(a, b) == IF a <= b THEN a ELSE b

\* seq[a:b] of Python with 0 <= a: the elements a+1 .. b, clipped to the sequence
Slice(s, a, b) == SubSeq(s, a + 1, Min(b, Len(s)))

\* seq[a:]
From(s, a) == SubSeq(s, a + 1, Len(s))

ToLower ==
    [c \in UpperChars |->
       LowerSeq[CHOOSE i \in DOMAIN UpperSeq : UpperSeq[i] = c]]

LowerChar(c) == IF c \in UpperChars THEN ToLower[c] ELSE c

\* str.lower
Lower(s) == [i \in DOMAIN s |-> LowerChar(s[i])]

\* the last index j >= i - 1 with s[i .. j] all in the class cls
RECURSIVE RunTo(_, _, _)
RunTo(s, i, cls) ==
    IF i <= Len(s) /\ s[i] \in cls THEN RunTo(s, i + 1, cls) ELSE i - 1

\* number of leading characters of s that are in the class cls
Run(s, cls) == RunTo(s, 1, cls)

\* the first index j <= i + 1 with s[j .. i] all in the class cls
RECURSIVE RunDownTo(_, _, _)
RunDownTo(s, i, cls) ==
    IF i >= 1 /\ s[i] \in cls THEN RunDownTo(s, i - 1, cls) ELSE i + 1

\* number of trailing characters of s that are in the class cls
RunBack(s, cls) == Len(s) - RunDownTo(s, Len(s), cls) + 1

\* str.strip
Strip(s) ==
    LET a == Run(s, SpaceChars)
    IN  IF a = Len(s) THEN <<>>
        ELSE SubSeq(s, a + 1, Len(s) - RunBack(s, SpaceChars))

\* str.endswith
EndsWith(s, p) ==
    Len(s) >= Len(p) /\ SubSeq(s, Len(s) - Len(p) + 1, Len(s)) = p

\* the Python test "p in s" on strings
Contains(s, p) ==
    \E i \in 0 .. (Len(s) - Len(p)) : SubSeq(s, i + 1, i + Len(p)) = p

\* index (from 0) of the first occurrence of p in s at or after a, or -1
Find(s, p, a) ==
    LET hits == {i \in a .. (Len(s) - Len(p)) : SubSeq(s, i + 1, i + Len(p)) = p}
    IN  IF hits = {} THEN -1
        ELSE CHOOSE i \in hits : \A j \in hits : i <= j

\* str.split(sep), sep not empty
RECURSIVE Split(_, _)
Split(s, sep) ==
    LET k == Find(s, sep, 0)
    IN  IF k < 0 THEN <<s>>
        ELSE <<SubSeq(s, 1, k)>> \o Split(From(s, k + Len(sep)), sep)

\* str.isupper: some cased character, and no lowercase one
IsUpper(s) ==
    /\ \E i \in DOMAIN s : s[i] \in UpperChars
    /\ \A i \in DOMAIN s : s[i] \notin LowerChars

\* str.istitle: uppercase characters only follow uncased ones, lowercase
\* characters only follow cased ones, and there is a cased character
IsTitle(s) ==
    /\ \E i \in DOMAIN s : s[i] \in Letters
    /\ \A i \in DOMAIN s :
         LET prev_cased == i > 1 /\ s[i - 1] \in Letters
         IN  /\ s[i] \in UpperChars => ~prev_cased
             /\ s[i] \in LowerChars => prev_cased

\* str.isdigit
IsDigit(s) == s # <<>> /\ \A i \in DOMAIN s : s[i] \in DigitChars

(***************************************************************************)
(* The regular expressions of the two programs.  MatchLen operators give   *)
(* the length of the match at the start of the string, or -1.              *)
(***************************************************************************)
Fold(s, ignorecase) == IF ignorecase THEN Lower(s) ELSE s

\* ^(\d+\.?\d*\s+)
NumberedMatchLen(s) ==
    LET d1 == Run(s, DigitChars)
        r1 == From(s, d1)
        dot == IF r1 # <<>> /\ Head(r1) = "." THEN 1 ELSE 0
        r2 == From(r1, dot)
        d2 == Run(r2, DigitChars)
        ws == Run(From(r2, d2), SpaceChars)
    IN  IF d1 >= 1 /\ ws >= 1 THEN d1 + dot + d2 + ws ELSE -1

\* ^([A-Z]\.?\s+) ; round1b writes \.?\t?\s+ , where the optional tab is
\* itself whitespace and so changes neither what matches nor the match
LetteredMatchLen(s, ignorecase) ==
    LET letters == IF ignorecase THEN Letters ELSE UpperChars
        r1 == From(s, 1)
        dot == IF r1 # <<>> /\ Head(r1) = "." THEN 1 ELSE 0
        ws == Run(From(r1, dot), SpaceChars)
    IN  IF s # <<>> /\ Head(s) \in letters /\ ws >= 1 THEN 1 + dot + ws ELSE -1

\* ^([IVX]+\.?\s+)
RomanMatchLen(s, ignorecase) ==
    LET letters == IF ignorecase THEN {"I","V","X","i","v","x"} ELSE {"I","V","X"}
        n == Run(s, letters)
        r1 == From(s, n)
        dot == IF r1 # <<>> /\ Head(r1) = "." THEN 1 ELSE 0
        ws == Run(From(r1, dot), SpaceChars)
    IN  IF n >= 1 /\ ws >= 1 THEN n + dot + ws ELSE -1

\* ^(word\s+\d+)  for word = Chapter, Section, CHAPTER, Part
WordNumberMatchLen(s, word, ignorecase) ==
    LET r1 == From(s, Len(word))
        ws == Run(r1, SpaceChars)
        d == Run(From(r1, ws), DigitChars)
    IN  IF /\ Len(s) >= Len(word)
           /\ Fold(SubSeq(s, 1, Len(word)), ignorecase) = Fold(word, ignorecase)
           /\ ws >= 1 /\ d >= 1
          THEN Len(word) + ws + d
          ELSE -1

\* ^(w1|w2|...) with re.IGNORECASE, given the alternatives in lower case
LabelMatch(s, lower_labels) ==
    \E k \in DOMAIN lower_labels :
        /\ Len(s) >= Len(lower_labels[k])
        /\ Lower(SubSeq(s, 1, Len(lower_labels[k]))) = lower_labels[k]

\* re.search(r'\d{4}|\$|\%', s)
HasYearOrMoney(s) ==
    \/ \E i \in DOMAIN s : s[i] \in {"$", "%"}
    \/ \E i \in 1 .. (Len(s) - 3) :
         \A j \in i .. (i + 3) : s[j] \in DigitChars

\* re.sub(r'^[\d\.\s\w]+[:.]?\s*', '', s): the greedy class run takes every
\* leading digit, dot, whitespace and word character, so what follows it is
\* none of these; then one optional ':' and the whitespace after it
TitlePrefixChars == DigitChars \cup {"."} \cup SpaceChars \cup WordChars

CleanTitle(s) ==
    LET n == Run(s, TitlePrefixChars)
        r1 == From(s, n)
        colon == IF r1 # <<>> /\ Head(r1) \in {":", "."} THEN 1 ELSE 0
        r2 == From(r1, colon)
    IN  IF n >= 1 THEN From(r2, Run(r2, SpaceChars)) ELSE s

(***************************************************************************)
(* round1b.py: PersonaDrivenAnalyzer                                       *)
(***************************************************************************)
Str_Chapter == <<"C","h","a","p","t","e","r">>

Str_Section == <<"S","e","c","t","i","o","n">>

\* the alternatives of the sixth and seventh section markers
DiscourseLabels ==
    << <<"A","b","s","t","r","a","c","t">>,
       <<"I","n","t","r","o","d","u","c","t","i","o","n">>,
       <<"C","o","n","c","l","u","s","i","o","n">>,
       <<"R","e","s","u","l","t","s">>,
       <<"D","i","s","c","u","s","s","i","o","n">>,
       <<"M","e","t","h","o","d","s">>,
       <<"M","e","t","h","o","d","o","l","o","g","y">>,
       <<"E","x","e","c","u","t","i","v","e"," ","S","u","m","m","a","r","y">>,
       <<"O","v","e","r","v","i","e","w">>,
       <<"B","a","c","k","g","r","o","u","n","d">>,
       <<"F","i","n","d","i","n","g","s">>,
       <<"R","e","c","o","m","m","e","n","d","a","t","i","o","n","s">> >>

LowerDiscourseLabels ==
    [k \in DOMAIN DiscourseLabels |-> Lower(DiscourseLabels[k])]

\* any(re.match(pattern, line, re.IGNORECASE) for pattern in section_markers)
MatchesSectionMarker(line) ==
    \/ NumberedMatchLen(line) >= 0
    \/ LetteredMatchLen(line, TRUE) >= 0
    \/ RomanMatchLen(line, TRUE) >= 0
    \/ WordNumberMatchLen(line, Str_Chapter, TRUE) >= 0
    \/ WordNumberMatchLen(line, Str_Section, TRUE) >= 0
    \/ LabelMatch(line, LowerDiscourseLabels)

\* the test on lines that are all caps or follow title case
LooksLikeHeading(line) ==
    /\ Len(line) > 5
    /\ Len(line) < 100
    /\ (IsUpper(line) \/ IsTitle(line))
    /\ ~HasYearOrMoney(line)

\* is_section_header after both tests
IsSectionHeader(line) == MatchesSectionMarker(line) \/ LooksLikeHeading(line)

\* section_title after both tests: the second test runs whatever the first
\* found, and assigns the raw line
SectionTitle(line) ==
    IF LooksLikeHeading(line) THEN line
    ELSE IF MatchesSectionMarker(line) THEN Strip(CleanTitle(line))
    ELSE line

\* self.preferred_sections
preferred_sections ==
    { <<"C","o","m","p","r","e","h","e","n","s","i","v","e"," ","G","u","i","d","e"," ","t","o"," ","M","a","j","o","r"," ","C","i","t","i","e","s"," ","i","n"," ","t","h","e"," ","S","o","u","t","h"," ","o","f"," ","F","r","a","n","c","e">>,
      <<"C","o","a","s","t","a","l"," ","A","d","v","e","n","t","u","r","e","s">>,
      <<"C","u","l","i","n","a","r","y"," ","E","x","p","e","r","i","e","n","c","e","s">>,
      <<"G","e","n","e","r","a","l"," ","P","a","c","k","i","n","g"," ","T","i","p","s"," ","a","n","d"," ","T","r","i","c","k","s">>,
      <<"N","i","g","h","t","l","i","f","e"," ","a","n","d"," ","E","n","t","e","r","t","a","i","n","m","e","n","t">>,
      <<"T","r","a","v","e","l"," ","T","i","p","s">>,
      <<"F","a","m","i","l","y","-","F","r","i","e","n","d","l","y"," ","H","o","t","e","l","s">> }

\* the keywords that boost a section title
TitleKeywords ==
    { <<"r","e","s","u","l","t">>,
      <<"f","i","n","d","i","n","g">>,
      <<"c","o","n","c","l","u","s","i","o","n">>,
      <<"m","e","t","h","o","d">>,
      <<"a","n","a","l","y","s","i","s">> }

Str_Introduction == <<"I","n","t","r","o","d","u","c","t","i","o","n">>

\* a Section as the segmenter creates it
NewSection(page, title, content) ==
    [document |-> page.document, section_title |-> title,
     page_start |-> page.page_number, page_end |-> page.page_number,
     content |-> content]

\* the loop state of identify_sections; current is <<>> for None, else <<section>>
NoSections == [sections |-> <<>>, current |-> <<>>]

\* "if current_section and current_section['content'].strip(): sections.append(...)"
CloseCurrent(st) ==
    IF st.current # <<>> /\ Strip(st.current[1].content) # <<>>
      THEN Append(st.sections, st.current[1])
      ELSE st.sections

\* SegmentLine with "=" for "+=": a content line replaces the content
SegmentLine_Overwrite(st, page, raw_line) ==
    LET line == Strip(raw_line)
    IN  IF line = <<>> THEN st
        ELSE IF IsSectionHeader(line)
          THEN [sections |-> CloseCurrent(st),
                current |-> <<NewSection(page, SectionTitle(line), <<>>)>>]
        ELSE IF st.current # <<>>
          THEN [st EXCEPT !.current[1].content = line \o <<" ">>,
                          !.current[1].page_end = page.page_number]
        ELSE [st EXCEPT !.current =
                <<NewSection(page, Str_Introduction, line \o <<" ">>)>>]

\* one pass of the inner loop of identify_sections, on one raw line of a page
SegmentLine(st, page, raw_line) ==
    LET line == Strip(raw_line)
    IN  IF line = <<>> THEN st
        ELSE IF IsSectionHeader(line)
          THEN [sections |-> CloseCurrent(st),
                current |-> <<NewSection(page, SectionTitle(line), <<>>)>>]
        ELSE IF st.current # <<>>
          THEN [st EXCEPT !.current[1].content = @ \o line \o <<" ">>,
                          !.current[1].page_end = page.page_number]
        ELSE [st EXCEPT !.current =
                <<NewSection(page, Str_Introduction, line \o <<" ">>)>>]

\* the (page, raw line) pairs in the order the two nested loops visit them
RECURSIVE PageLines(_)
PageLines(pages) ==
    IF pages = <<>> THEN <<>>
    ELSE LET lines == Split(Head(pages).text, <<"\n">>)
         IN  [i \in DOMAIN lines |-> [page |-> Head(pages), line |-> lines[i]]]
               \o PageLines(Tail(pages))

RECURSIVE SegmentLines(_, _)
SegmentLines(st, items) ==
    IF items = <<>> THEN st
    ELSE SegmentLines(SegmentLine(st, Head(items).page, Head(items).line),
                      Tail(items))

identify_sections(pages_content) ==
    CloseCurrent(SegmentLines(NoSections, PageLines(pages_content)))

\* 1.0 in the fixed-point unit of scores and similarities
One == 10000

\* cosine_similarity(model.encode([query_text]), model.encode([text]))[0][0]:
\* embed.sims[k] is the cosine similarity of the text embed.texts[k] to the query
cosine_similarity(text) ==
    embed.sims[CHOOSE k \in DOMAIN embed.texts : embed.texts[k] = text]

\* f"{section['section_title']} {section['content'][:1000]}"
section_text(section) ==
    section.section_title \o <<" ">> \o Slice(section.content, 0, 1000)

\* the boost for longer sections: the test for more than 500 characters comes
\* first, so the branch for more than 1000 is never taken
LengthBoost(score, content_length) ==
    IF content_length > 500 THEN (score * 11) \div 10
    ELSE IF content_length > 1000 THEN (score * 12) \div 10
    ELSE score

\* the boost for keywords in the lower-cased title
KeywordBoost(score, title) ==
    IF \E k \in TitleKeywords : Contains(Lower(title), k)
      THEN (score * 12) \div 10
      ELSE score

\* the boost for preferred section titles
PreferredBoost(score, title) ==
    IF title \in preferred_sections THEN score + 5000 ELSE score

\* the cap applied before the boost for longer sections
calculate_relevance_score_CapFirst(section) ==
    LET similarity == cosine_similarity(section_text(section))
        boosted == KeywordBoost(PreferredBoost(similarity, section.section_title),
                                section.section_title)
    IN  LengthBoost(Min(boosted, One), Len(section.content))

calculate_relevance_score(section) ==
    LET similarity == cosine_similarity(section_text(section))
        boosted == KeywordBoost(PreferredBoost(similarity, section.section_title),
                                section.section_title)
    IN  Min(LengthBoost(boosted, Len(section.content)), One)

\* a descending sort that puts an element before the earlier ones of its score
RECURSIVE SortByScore_Unstable(_)
SortByScore_Unstable(seq) ==
    IF seq = <<>> THEN <<>>
    ELSE LET x == seq[Len(seq)]
             sorted == SortByScore_Unstable(SubSeq(seq, 1, Len(seq) - 1))
             k == Cardinality({i \in DOMAIN sorted :
                                 sorted[i].relevance_score > x.relevance_score})
         IN  SubSeq(sorted, 1, k) \o <<x>> \o SubSeq(sorted, k + 1, Len(sorted))

\* list.sort(key=lambda x: x['relevance_score'], reverse=True): a stable sort,
\* elements of equal score keep their order
RECURSIVE SortByScore(_)
SortByScore(seq) ==
    IF seq = <<>> THEN <<>>
    ELSE LET x == seq[Len(seq)]
             sorted == SortByScore(SubSeq(seq, 1, Len(seq) - 1))
             k == Cardinality({i \in DOMAIN sorted :
                                 sorted[i].relevance_score >= x.relevance_score})
         IN  SubSeq(sorted, 1, k) \o <<x>> \o SubSeq(sorted, k + 1, Len(sorted))

\* [p.strip() for p in pieces if len(p.strip()) > 50]
RECURSIVE LongPieces(_)
LongPieces(pieces) ==
    IF pieces = <<>> THEN <<>>
    ELSE (IF Len(Strip(Head(pieces))) > 50 THEN <<Strip(Head(pieces))>> ELSE <<>>)
           \o LongPieces(Tail(pieces))

\* the ellipsis added to the whole paragraph
RefinedText_NoCut(paragraph) ==
    paragraph \o (IF Len(paragraph) > 500 THEN <<".", ".", ".">> ELSE <<>>)

\* paragraph[:500] + ('...' if len(paragraph) > 500 else '')
RefinedText(paragraph) ==
    Slice(paragraph, 0, 500)
      \o (IF Len(paragraph) > 500 THEN <<".", ".", ".">> ELSE <<>>)

\* the candidate paragraphs with the split on '.' tried first
Paragraphs_SentencesFirst(content) ==
    LET sentences == LongPieces(Split(content, <<".">>))
    IN  IF sentences = <<>> THEN LongPieces(Split(content, <<"\n", "\n">>))
        ELSE sentences

\* the candidate paragraphs of a section: split on blank lines, else on '.'
Paragraphs(content) ==
    LET paragraphs == LongPieces(Split(content, <<"\n", "\n">>))
    IN  IF paragraphs = <<>> THEN LongPieces(Split(content, <<".">>))
        ELSE paragraphs

\* the paragraphs extract_subsections encodes: of the first 10, the substantial ones
Substantial(paragraphs) ==
    SelectSeq(Slice(paragraphs, 0, 10), LAMBDA p : Len(p) > 100)

extract_subsections(section, top_k) ==
    LET considered == Substantial(Paragraphs(section.content))
        subsections ==
          [i \in DOMAIN considered |->
             [document |-> section.document,
              page_number |-> section.page_start,
              refined_text |-> RefinedText(considered[i]),
              relevance_score |-> cosine_similarity(considered[i])]]
    IN  Slice(SortByScore(subsections), 0, top_k)

(***************************************************************************)
(* The files of the runs.  A document of the input is a path (a string) or *)
(* an integer (a file descriptor, which os.path.exists also accepts).      *)
(***************************************************************************)
\* a line of n characters c: body text, no header
Body(n, c) == [i \in 1 .. n |-> c]

Path_Guide == <<"/","i","n","/","g","u","i","d","e",".","p","d","f">>

Path_Broken == <<"/","i","n","/","B","R","O","K","E","N",".","P","D","F">>

Path_Notes == <<"/","i","n","/","n","o","t","e","s",".","t","x","t">>

Path_Missing == <<"/","i","n","/","m","i","s","s","i","n","g",".","p","d","f">>

\* the text of the pages of guide.pdf, as page.get_text() returns it
GuidePages ==
    << <<" "," ","C","o","a","s","t","a","l"," ","A","d","v","e","n","t","u","r","e","s","\n">> \o Body(520, "b") \o <<"\n","3",".","2"," ","M","e","t","h","o","d","o","l","o","g","y"," ","O","v","e","r","v","i","e","w","\n","s","h","o","r","t"," ","n","o","t","e","s"," ","h","e","r","e",".","\n">>,
       <<" ", "\n", " ">>,
       <<"c","o","n","t","i","n","u","e","d"," ","o","n"," ","a"," ","l","a","t","e","r"," ","p","a","g","e","\n","T","r","a","v","e","l"," ","T","i","p","s","\n">> \o Body(255, "c") \o <<".","\n","\n">> \o Body(255, "d") \o <<".","\n","\n","R","e","s","u","l","t","s",":"," ","t","h","e"," ","d","a","t","a"," ","(","n","=","5",")","\n","s","e","e"," ","t","a","b","l","e",","," ","o","r"," ","n","o","t","\n","N","I","G","H","T","L","I","F","E">> >>

StrDoc(path) == [type |-> "str", path |-> path]

\* a document given as a number: no such descriptor is open
IntDoc == [type |-> "int", fd |-> 7]

DocumentPalette ==
    {StrDoc(Path_Guide), StrDoc(Path_Broken), StrDoc(Path_Notes),
     StrDoc(Path_Missing), IntDoc}

\* os.path.exists
PathExists(doc) ==
    doc.type = "str" /\ doc.path \in {Path_Guide, Path_Broken, Path_Notes}

\* whether fitz.open(path) returns a document; it raises otherwise
Opens(path) == path = Path_Guide

\* the page texts of the document fitz.open(path) returns
PdfPageTexts(path) == IF path = Path_Guide THEN GuidePages ELSE <<>>

\* os.path.basename of a string
Basename(path) ==
    LET slashes == {i \in DOMAIN path : path[i] = "/"}
    IN  IF slashes = {} THEN path
        ELSE From(path, CHOOSE i \in slashes : \A j \in slashes : j <= i)

\* the pages of the document that have text, numbered from 1, stripped
extract_text_from_pdf(pdf_path) ==
    LET texts == PdfPageTexts(pdf_path)
        numbered == [i \in DOMAIN texts |->
                       [page_number |-> i, text |-> Strip(texts[i]),
                        document |-> Basename(pdf_path)]]
    IN  SelectSeq(numbered, LAMBDA page : page.text # <<>>)

\* the second test alone: a path that does not exist is opened too
Resolves_NoExistsTest(doc) ==
    doc.type = "str" /\ EndsWith(Lower(doc.path), <<".", "p", "d", "f">>)

\* "os.path.exists(doc_path) and doc_path.lower().endswith('.pdf')"
Resolves(doc) ==
    PathExists(doc) /\ EndsWith(Lower(doc.path), <<".", "p", "d", "f">>)

\* identify_sections(extract_text_from_pdf(path)) of the documents that open:
\* it does not depend on the run, and is computed once
Segmented ==
    [path \in {Path_Guide} |-> identify_sections(extract_text_from_pdf(path))]

\* the sections of one document with their relevance scores
ScoredSections(pdf_path) ==
    LET sections == Segmented[pdf_path]
    IN  [i \in DOMAIN sections |->
           [document |-> sections[i].document,
            section_title |-> sections[i].section_title,
            page_start |-> sections[i].page_start,
            page_end |-> sections[i].page_end,
            content |-> sections[i].content,
            relevance_score |-> calculate_relevance_score(sections[i])]]

(***************************************************************************)
(* analyze_documents, step by step.  An exception raised in the try block  *)
(* leaves the locals as they are and passes control to the except clause.  *)
(***************************************************************************)
Raise(e) ==
    /\ pc' = "except"
    /\ exc' = e
    /\ UNCHANGED <<input_data, doc_index, all_sections, top_sections,
                   subsection_analysis, result, concatenated>>

\* datetime.now().isoformat()
Timestamp == "2025-07-28T10:00:00"

\* the entries of extracted_sections, for the sections top_sections
ExtractedSections(top) ==
    [i \in DOMAIN top |->
       [document |-> top[i].document,
        section_title |-> top[i].section_title,
        importance_rank |-> i,
        page_number |-> top[i].page_start]]

SubsectionAnalysis(subsections) ==
    LET first == Slice(subsections, 0, 15)
    IN  [i \in DOMAIN first |->
           [document |-> first[i].document,
            refined_text |-> first[i].refined_text,
            page_number |-> first[i].page_number]]

\* an except clause that returns what the try block had computed as well
ErrorResult_Partial(e) ==
    [error |-> e, metadata |-> [processing_timestamp |-> Timestamp],
     extracted_sections |-> ExtractedSections(top_sections)]

\* the value the except clause returns
ErrorResult(e) ==
    [error |-> e, metadata |-> [processing_timestamp |-> Timestamp]]

\* documents, persona and job are read from input_data; a missing key raises
ReadInput ==
    /\ pc = "start"
    /\ IF {"documents", "persona", "job_to_be_done"} \subseteq DOMAIN input_data
         THEN /\ pc' = "documents"
              /\ doc_index' = 1
              /\ all_sections' = <<>>
              /\ UNCHANGED <<input_data, top_sections, subsection_analysis,
                             exc, result, concatenated>>
         ELSE Raise("KeyError")
    /\ UNCHANGED <<embed, seg_vars, call_vars>>

\* one pass of the loop over the documents
ProcessDocument ==
    /\ pc = "documents"
    /\ doc_index <= Len(input_data.documents)
    /\ LET doc == input_data.documents[doc_index]
       IN  IF Resolves(doc)
             THEN IF Opens(doc.path)
                    THEN \/ /\ all_sections' =
                                 all_sections \o ScoredSections(doc.path)
                            /\ doc_index' = doc_index + 1
                            /\ UNCHANGED <<input_data, pc, top_sections,
                                           subsection_analysis, exc, result,
                                           concatenated>>
                         \* model.encode may fail when there is a section to encode
                         \/ /\ ScoredSections(doc.path) # <<>>
                            /\ Raise("EncodeError")
                    ELSE Raise("FileDataError")
             ELSE /\ doc_index' = doc_index + 1
                  /\ UNCHANGED <<input_data, pc, all_sections, top_sections,
                                 subsection_analysis, exc, result, concatenated>>
    /\ UNCHANGED <<embed, seg_vars, call_vars>>

\* all_sections.sort(...); top_sections = all_sections[:10]
RankSections ==
    /\ pc = "documents"
    /\ doc_index > Len(input_data.documents)
    /\ concatenated' = all_sections
    /\ all_sections' = SortByScore(all_sections)
    /\ top_sections' = Slice(SortByScore(all_sections), 0, 10)
    /\ pc' = "subsections"
    /\ UNCHANGED <<input_data, doc_index, subsection_analysis, exc, result>>
    /\ UNCHANGED <<embed, seg_vars, call_vars>>

\* the subsections of the sections top_sections[:5], concatenated
RECURSIVE SubsectionsOf(_)
SubsectionsOf(sections) ==
    IF sections = <<>> THEN <<>>
    ELSE extract_subsections(Head(sections), 3) \o SubsectionsOf(Tail(sections))

\* one section more than top_sections[:5]
AnalysedSections_Six(top) == Slice(top, 0, 6)

\* the sections whose subsections are extracted
AnalysedSections(top) == Slice(top, 0, 5)

\* the loop over top_sections[:5], and the sort of subsection_analysis
ExtractSubsections ==
    /\ pc = "subsections"
    /\ \/ /\ subsection_analysis' =
               SortByScore(SubsectionsOf(AnalysedSections(top_sections)))
          /\ pc' = "assemble"
          /\ UNCHANGED <<input_data, doc_index, all_sections, top_sections,
                         exc, result, concatenated>>
       \* model.encode may fail when there is a paragraph to encode
       \/ /\ SubsectionsOf(AnalysedSections(top_sections)) # <<>>
          /\ Raise("EncodeError")
    /\ UNCHANGED <<embed, seg_vars, call_vars>>

\* the result dictionary; os.path.basename raises on a document that is no string
AssembleResult ==
    /\ pc = "assemble"
    /\ IF \A i \in DOMAIN input_data.documents :
            input_data.documents[i].type = "str"
         THEN /\ result' =
                   [metadata |->
                      [input_documents |->
                         [i \in DOMAIN input_data.documents |->
                            Basename(input_data.documents[i].path)],
                       persona |-> input_data.persona,
                       job_to_be_done |-> input_data.job_to_be_done,
                       processing_timestamp |-> Timestamp],
                    extracted_sections |-> ExtractedSections(top_sections),
                    subsection_analysis |->
                      SubsectionAnalysis(subsection_analysis)]
              /\ pc' = "done"
              /\ UNCHANGED <<input_data, doc_index, all_sections, top_sections,
                             subsection_analysis, exc, concatenated>>
         ELSE Raise("TypeError")
    /\ UNCHANGED <<embed, seg_vars, call_vars>>

\* except Exception as e: return {'error': ..., 'metadata': {...}}
HandleException ==
    /\ pc = "except"
    /\ result' = ErrorResult(exc)
    /\ pc' = "done"
    /\ UNCHANGED <<input_data, doc_index, all_sections, top_sections,
                   subsection_analysis, exc, concatenated>>
    /\ UNCHANGED <<embed, seg_vars, call_vars>>

(***************************************************************************)
(* The runs of analyze_documents that are checked                          *)
(***************************************************************************)
\* the longest list of documents of a run
MaxDocs == 3

Batches == UNION {[1 .. n -> DocumentPalette] : n \in 0 .. MaxDocs}

\* the similarities the embedding model gives the texts of a run
PipelineSims == {-3000, 3000}

\* every text a run encodes: the sections' texts, then their substantial paragraphs
RECURSIVE ParagraphsOfAll(_)
ParagraphsOfAll(sections) ==
    IF sections = <<>> THEN <<>>
    ELSE Substantial(Paragraphs(Head(sections).content))
           \o ParagraphsOfAll(Tail(sections))

Corpus ==
    [i \in DOMAIN Segmented[Path_Guide] |->
       section_text(Segmented[Path_Guide][i])]
      \o ParagraphsOfAll(Segmented[Path_Guide])

\* the inputs: with every key, and (for the shortest lists) without a key
Inputs ==
    {[documents |-> b, persona |-> "Travel Planner",
      job_to_be_done |-> "Plan a trip of 4 days"] : b \in Batches}
      \cup {[documents |-> b, persona |-> "Travel Planner"] :
              b \in {c \in Batches : Len(c) <= 1}}

NoSegmenter ==
    /\ seg_pages = <<>>
    /\ seg_pos = 0
    /\ seg_state = NoSections
    /\ seg_log = <<>>
    /\ seg_ids = <<>>
    /\ seg_dropped = {}

NoCall == call = <<>> /\ ret = <<>>

NoPipeline ==
    /\ input_data = <<>>
    /\ pc = "idle"
    /\ doc_index = 0
    /\ all_sections = <<>>
    /\ top_sections = <<>>
    /\ subsection_analysis = <<>>
    /\ exc = None
    /\ result = <<>>
    /\ concatenated = <<>>

Init ==
    /\ embed \in {[texts |-> Corpus, sims |-> f] :
                    f \in [DOMAIN Corpus -> PipelineSims]}
    /\ input_data \in Inputs
    /\ pc = "start"
    /\ doc_index = 0
    /\ all_sections = <<>>
    /\ top_sections = <<>>
    /\ subsection_analysis = <<>>
    /\ exc = None
    /\ result = <<>>
    /\ concatenated = <<>>
    /\ NoSegmenter
    /\ NoCall

Next ==
    \/ ReadInput
    \/ ProcessDocument
    \/ RankSections
    \/ ExtractSubsections
    \/ AssembleResult
    \/ HandleException

Spec == Init /\ [][Next]_vars

(***************************************************************************)
(* identify_sections run one line at a time, with a ledger of what became  *)
(* of every non-blank line.  Sections are numbered in the order they are   *)
(* opened; seg_ids are the numbers of seg_state.sections followed by that  *)
(* of the current section, seg_dropped those of the sections discarded.    *)
(***************************************************************************)
SegItems == PageLines(seg_pages)

SegOpened == Len(seg_ids) + Cardinality(seg_dropped)

\* a line is read: blank lines are skipped, a header opens a section, any
\* other line is content
SegStep ==
    /\ seg_pos < Len(SegItems)
    /\ LET item == SegItems[seg_pos + 1]
           line == Strip(item.line)
           after == SegmentLine(seg_state, item.page, item.line)
           had_current == seg_state.current # <<>>
           kept == Len(after.sections) > Len(seg_state.sections)
       IN  /\ seg_state' = after
           /\ seg_pos' = seg_pos + 1
           /\ IF line = <<>>
                THEN UNCHANGED <<seg_log, seg_ids, seg_dropped>>
              ELSE IF IsSectionHeader(line)
                THEN /\ seg_log' = Append(seg_log,
                            [line |-> line, role |-> "title", sec |-> SegOpened + 1])
                     /\ seg_ids' =
                          (IF had_current /\ ~kept
                             THEN SubSeq(seg_ids, 1, Len(seg_ids) - 1)
                             ELSE seg_ids) \o <<SegOpened + 1>>
                     /\ seg_dropped' =
                          IF had_current /\ ~kept
                            THEN seg_dropped \cup {seg_ids[Len(seg_ids)]}
                            ELSE seg_dropped
              ELSE IF had_current
                THEN /\ seg_log' = Append(seg_log,
                            [line |-> line, role |-> "content",
                             sec |-> seg_ids[Len(seg_ids)]])
                     /\ UNCHANGED <<seg_ids, seg_dropped>>
              ELSE /\ seg_log' = Append(seg_log,
                          [line |-> line, role |-> "content", sec |-> SegOpened + 1])
                   /\ seg_ids' = seg_ids \o <<SegOpened + 1>>
                   /\ UNCHANGED seg_dropped
    /\ UNCHANGED <<seg_pages, embed, pipeline_vars, call_vars>>

\* the input is exhausted: the final section is added, and sections returned
SegReturn ==
    /\ seg_pos = Len(SegItems)
    /\ LET kept == Len(CloseCurrent(seg_state)) > Len(seg_state.sections)
           had_current == seg_state.current # <<>>
       IN  /\ seg_state' = [sections |-> CloseCurrent(seg_state), current |-> <<>>]
           /\ seg_pos' = seg_pos + 1
           /\ seg_ids' = IF had_current /\ ~kept
                           THEN SubSeq(seg_ids, 1, Len(seg_ids) - 1)
                           ELSE seg_ids
           /\ seg_dropped' = IF had_current /\ ~kept
                               THEN seg_dropped \cup {seg_ids[Len(seg_ids)]}
                               ELSE seg_dropped
    /\ UNCHANGED <<seg_pages, seg_log, embed, pipeline_vars, call_vars>>

\* the raw lines the page texts are made of
SegLinePalette ==
    { <<"3",".","2"," ","M","e","t","h","o","d","o","l","o","g","y"," ","O","v","e","r","v","i","e","w">>,
      <<"C","o","a","s","t","a","l"," ","A","d","v","e","n","t","u","r","e","s">>,
      <<" "," ","p","l","a","i","n"," ","b","o","d","y"," ","t","e","x","t","."," "," ">>,
      <<" "," "," ">>,
      <<"r","e","s","u","l","t","s",":"," ","t","h","e"," ","d","a","t","a"," ","(","n","=","5",")">> }

\* the most lines an input has over its pages
MaxLines == 3

\* lines joined by newlines: the text of a page
RECURSIVE JoinLines(_)
JoinLines(lines) ==
    IF lines = <<>> THEN <<>>
    ELSE IF Len(lines) = 1 THEN lines[1]
    ELSE Head(lines) \o <<"\n">> \o JoinLines(Tail(lines))

Str_DocName == <<"g","u","i","d","e",".","p","d","f">>

\* one or two pages: the lines, cut after the first k
SegInputs ==
    UNION {UNION {
        { IF k = 0 \/ k = n
            THEN << [page_number |-> 1, text |-> JoinLines(lines),
                     document |-> Str_DocName] >>
            ELSE << [page_number |-> 1, text |-> JoinLines(SubSeq(lines, 1, k)),
                     document |-> Str_DocName],
                    [page_number |-> 2, text |-> JoinLines(SubSeq(lines, k + 1, n)),
                     document |-> Str_DocName] >>
          : k \in 0 .. (n - 1) }
        : lines \in [1 .. n -> SegLinePalette] }
      : n \in 1 .. MaxLines } \cup {<<>>}

InitSeg ==
    /\ seg_pages \in SegInputs
    /\ seg_pos = 0
    /\ seg_state = NoSections
    /\ seg_log = <<>>
    /\ seg_ids = <<>>
    /\ seg_dropped = {}
    /\ embed = <<>>
    /\ NoPipeline
    /\ NoCall

NextSeg == SegStep \/ SegReturn

SpecSeg == InitSeg /\ [][NextSeg]_vars

(***************************************************************************)
(* round1a.py: PDFOutlineExtractor.  Font sizes are in tenths of a point;  *)
(* the average font size is kept as the sum and the number of the sizes,   *)
(* so that a comparison with a multiple of it is exact.                    *)
(***************************************************************************)
font_size_threshold == [title |-> 180, h1 |-> 160, h2 |-> 140, h3 |-> 120]

Str_CHAPTER == <<"C","H","A","P","T","E","R">>

Str_Part == <<"P","a","r","t">>

\* bool(flags & 16)
is_bold(flags) == (flags \div 16) % 2 = 1

\* any(re.match(pattern, text.strip()) for pattern in heading_patterns)
is_heading_pattern(text) ==
    LET t == Strip(text)
    IN  \/ NumberedMatchLen(t) >= 0
        \/ LetteredMatchLen(t, FALSE) >= 0
        \/ RomanMatchLen(t, FALSE) >= 0
        \/ WordNumberMatchLen(t, Str_Chapter, FALSE) >= 0
        \/ WordNumberMatchLen(t, Str_Section, FALSE) >= 0
        \/ WordNumberMatchLen(t, Str_CHAPTER, FALSE) >= 0
        \/ WordNumberMatchLen(t, Str_Part, FALSE) >= 0

\* font_size > avg_font_size * (tenths / 10)
Exceeds(font_size, avg, tenths) == font_size * avg.n * 10 > avg.sum * tenths

\* the same with the size bands tested from the smallest threshold up
classify_heading_level_BandsReversed(block, avg_font_size) ==
    LET font_size == block.font_size
        text == Strip(block.text)
    IN  IF Len(text) < 2 \/ IsDigit(text) THEN "None"
        ELSE IF font_size >= font_size_threshold.h3 THEN "H3"
        ELSE IF font_size >= font_size_threshold.h2 THEN "H2"
        ELSE IF font_size >= font_size_threshold.h1 THEN "H1"
        ELSE IF font_size >= font_size_threshold.title THEN "H1"
        ELSE "None"

\* the same with the level of a span that matches a pattern decided by its
\* relative size alone
classify_heading_level_PatternBySize(block, avg_font_size) ==
    LET font_size == block.font_size
        text == Strip(block.text)
        bold == is_bold(block.font_flags)
    IN  IF Len(text) < 2 \/ IsDigit(text) THEN "None"
        ELSE IF font_size >= font_size_threshold.h1 THEN "H1"
        ELSE IF font_size >= font_size_threshold.h2 THEN "H2"
        ELSE IF font_size >= font_size_threshold.h3 THEN "H3"
        ELSE IF is_heading_pattern(text)
          THEN IF Exceeds(font_size, avg_font_size, 12) THEN "H1"
               ELSE IF Exceeds(font_size, avg_font_size, 11) THEN "H2"
               ELSE "H3"
        ELSE IF bold /\ Exceeds(font_size, avg_font_size, 11)
          THEN IF Exceeds(font_size, avg_font_size, 13) THEN "H1"
               ELSE IF Exceeds(font_size, avg_font_size, 12) THEN "H2"
               ELSE "H3"
        ELSE "None"

classify_heading_level(block, avg_font_size) ==
    LET font_size == block.font_size
        text == Strip(block.text)
        bold == is_bold(block.font_flags)
    IN  IF Len(text) < 2 \/ IsDigit(text) THEN "None"
        ELSE IF font_size >= font_size_threshold.title THEN "H1"
        ELSE IF font_size >= font_size_threshold.h1 THEN "H1"
        ELSE IF font_size >= font_size_threshold.h2 THEN "H2"
        ELSE IF font_size >= font_size_threshold.h3 THEN "H3"
        ELSE IF is_heading_pattern(text)
          THEN IF bold \/ Exceeds(font_size, avg_font_size, 12) THEN "H1"
               ELSE IF Exceeds(font_size, avg_font_size, 11) THEN "H2"
               ELSE "H3"
        ELSE IF bold /\ Exceeds(font_size, avg_font_size, 11)
          THEN IF Exceeds(font_size, avg_font_size, 13) THEN "H1"
               ELSE IF Exceeds(font_size, avg_font_size, 12) THEN "H2"
               ELSE "H3"
        ELSE "None"

(***************************************************************************)
(* round1a.py: the title and the outline of a document, from pages_data,   *)
(* a sequence of pages [page_number, text_blocks], each block a span       *)
(* [text, font_size, font_flags].                                          *)
(***************************************************************************)
\* str.startswith
StartsWith(s, p) == Len(s) >= Len(p) /\ SubSeq(s, 1, Len(p)) = p

Str_Untitled ==
    <<"U","n","t","i","t","l","e","d"," ","D","o","c","u","m","e","n","t">>

Str_Empty == <<"E","m","p","t","y"," ","D","o","c","u","m","e","n","t">>

Str_Error ==
    <<"E","r","r","o","r"," ","P","r","o","c","e","s","s","i","n","g"," ",
      "D","o","c","u","m","e","n","t">>

\* the loop of extract_title over the blocks of the first page
RECURSIVE TitleScan(_, _)
TitleScan(blocks, st) ==
    IF blocks = <<>> THEN st
    ELSE LET font_size == Head(blocks).font_size
             text == Strip(Head(blocks).text)
         IN  TitleScan(Tail(blocks),
               IF font_size > st.max_font_size /\ Len(text) > 3
                 THEN [max_font_size |-> font_size, title_candidates |-> <<text>>]
               ELSE IF font_size = st.max_font_size /\ Len(text) > 3
                 THEN [max_font_size |-> st.max_font_size,
                       title_candidates |-> Append(st.title_candidates, text)]
               ELSE st)

\* max(title_candidates, key=len): the first of the longest
Longest(candidates) ==
    candidates[CHOOSE i \in DOMAIN candidates :
                 /\ \A j \in DOMAIN candidates :
                      Len(candidates[j]) <= Len(candidates[i])
                 /\ \A j \in 1 .. i - 1 :
                      Len(candidates[j]) < Len(candidates[i])]

\* the largest font size of the blocks, 0 when there is none
RECURSIVE MaxFontSize(_)
MaxFontSize(blocks) ==
    IF blocks = <<>> THEN 0
    ELSE LET rest == MaxFontSize(Tail(blocks))
         IN  IF Head(blocks).font_size > rest THEN Head(blocks).font_size ELSE rest

\* a title from the spans that have the largest font size of all the spans
extract_title_MaxOverAllSpans(pages_data) ==
    IF pages_data = <<>> THEN Str_Untitled
    ELSE LET blocks == pages_data[1].text_blocks
             at_max == SelectSeq(blocks,
                         LAMBDA b : /\ b.font_size = MaxFontSize(blocks)
                                    /\ Len(Strip(b.text)) > 3)
         IN  IF at_max = <<>> THEN Str_Untitled
             ELSE Longest([i \in DOMAIN at_max |-> Strip(at_max[i].text)])

extract_title(pages_data) ==
    IF pages_data = <<>> THEN Str_Untitled
    ELSE LET st == TitleScan(pages_data[1].text_blocks,
                             [max_font_size |-> 0, title_candidates |-> <<>>])
         IN  IF st.title_candidates # <<>> THEN Longest(st.title_candidates)
             ELSE Str_Untitled

\* the blocks of all the pages, in order
RECURSIVE AllBlocks(_)
AllBlocks(pages_data) ==
    IF pages_data = <<>> THEN <<>>
    ELSE Head(pages_data).text_blocks \o AllBlocks(Tail(pages_data))

RECURSIVE SumFontSizes(_)
SumFontSizes(blocks) ==
    IF blocks = <<>> THEN 0
    ELSE Head(blocks).font_size + SumFontSizes(Tail(blocks))

\* sum(font_sizes) / len(font_sizes) if font_sizes else 12, as [sum, n]
calculate_average_font_size(pages_data) ==
    LET blocks == AllBlocks(pages_data)
    IN  IF blocks # <<>> THEN [sum |-> SumFontSizes(blocks), n |-> Len(blocks)]
        ELSE [sum |-> 120, n |-> 1]

\* re.sub(r'\s+', ' ', text)
RECURSIVE NormalizeWhitespace(_)
NormalizeWhitespace(text) ==
    IF text = <<>> THEN <<>>
    ELSE IF text[1] \in SpaceChars
      THEN <<" ">> \o NormalizeWhitespace(From(text, Run(text, SpaceChars)))
    ELSE <<text[1]>> \o NormalizeWhitespace(Tail(text))

\* re.match(r'^[0-9]+\.[ ]', text)
IsNumbered(text) ==
    LET d == Run(text, DigitChars)
    IN  d >= 1 /\ Len(text) >= d + 2 /\ text[d + 1] = "." /\ text[d + 2] = " "

allowed_headings ==
    { <<"R","e","v","i","s","i","o","n"," ","H","i","s","t","o","r","y">>,
      <<"T","a","b","l","e"," ","o","f"," ","C","o","n","t","e","n","t","s">>,
      <<"A","c","k","n","o","w","l","e","d","g","e","m","e","n","t","s">>,
      <<"R","e","f","e","r","e","n","c","e","s">>,
      <<"S","y","l","l","a","b","u","s">>,
      <<"B","u","s","i","n","e","s","s"," ","O","u","t","c","o","m","e","s">>,
      <<"C","o","n","t","e","n","t">>,
      <<"T","r","a","d","e","m","a","r","k","s">>,
      <<"D","o","c","u","m","e","n","t","s"," ","a","n","d"," ","W","e","b"," ",
        "S","i","t","e","s">> }

\* the headings of the blocks of one page that are classified and retained
RECURSIVE BlockHeadings(_, _, _)
BlockHeadings(blocks, page_number, avg_font_size) ==
    IF blocks = <<>> THEN <<>>
    ELSE LET level == classify_heading_level(Head(blocks), avg_font_size)
             text == NormalizeWhitespace(Strip(Head(blocks).text))
             rest == BlockHeadings(Tail(blocks), page_number, avg_font_size)
         IN  IF /\ level # "None"
                /\ \/ IsNumbered(text)
                   \/ \E h \in allowed_headings : StartsWith(text, h)
               THEN <<[level |-> level, text |-> text, page |-> page_number]>>
                      \o rest
               ELSE rest

\* the list headings of extract_headings, before the duplicates are removed
RECURSIVE RetainedHeadings(_, _)
RetainedHeadings(pages, avg_font_size) ==
    IF pages = <<>> THEN <<>>
    ELSE BlockHeadings(Head(pages).text_blocks, Head(pages).page_number,
                       avg_font_size)
           \o RetainedHeadings(Tail(pages), avg_font_size)

\* key = (heading['text'].lower(), heading['level'])
HeadingKey(heading) == <<Lower(heading.text), heading.level>>

\* the loop of filter_duplicate_headings with the later heading of a key kept
RECURSIVE FilterLoop_KeepLast(_)
FilterLoop_KeepLast(headings) ==
    IF headings = <<>> THEN <<>>
    ELSE IF \E j \in 2 .. Len(headings) :
              HeadingKey(headings[j]) = HeadingKey(Head(headings))
      THEN FilterLoop_KeepLast(Tail(headings))
    ELSE <<Head(headings)>> \o FilterLoop_KeepLast(Tail(headings))

filter_duplicate_headings_KeepLast(headings) == FilterLoop_KeepLast(headings)

\* the loop of filter_duplicate_headings
RECURSIVE FilterLoop(_, _, _)
FilterLoop(headings, seen, filtered) ==
    IF headings = <<>> THEN filtered
    ELSE IF HeadingKey(Head(headings)) \notin seen
      THEN FilterLoop(Tail(headings), seen \cup {HeadingKey(Head(headings))},
                      Append(filtered, Head(headings)))
    ELSE FilterLoop(Tail(headings), seen, filtered)

filter_duplicate_headings(headings) == FilterLoop(headings, {}, <<>>)

extract_headings(pages_data) ==
    filter_duplicate_headings(
      RetainedHeadings(pages_data, calculate_average_font_size(pages_data)))

\* an ascending sort that puts a heading before the earlier ones of its page
RECURSIVE SortByPage_Unstable(_)
SortByPage_Unstable(seq) ==
    IF seq = <<>> THEN <<>>
    ELSE LET x == seq[Len(seq)]
             sorted == SortByPage_Unstable(SubSeq(seq, 1, Len(seq) - 1))
             k == Cardinality({i \in DOMAIN sorted : sorted[i].page < x.page})
         IN  SubSeq(sorted, 1, k) \o <<x>> \o SubSeq(sorted, k + 1, Len(sorted))

\* headings.sort(key=lambda x: x['page']): a stable sort
RECURSIVE SortByPage(_)
SortByPage(seq) ==
    IF seq = <<>> THEN <<>>
    ELSE LET x == seq[Len(seq)]
             sorted == SortByPage(SubSeq(seq, 1, Len(seq) - 1))
             k == Cardinality({i \in DOMAIN sorted : sorted[i].page <= x.page})
         IN  SubSeq(sorted, 1, k) \o <<x>> \o SubSeq(sorted, k + 1, Len(sorted))

\* extract_outline once extract_text_with_formatting has returned pages_data;
\* an exception of fitz.open gives the error outline
extract_outline(opens, pages_data) ==
    IF ~opens THEN [title |-> Str_Error, outline |-> <<>>]
    ELSE IF pages_data = <<>> THEN [title |-> Str_Empty, outline |-> <<>>]
    ELSE [title |-> extract_title(pages_data),
          outline |-> SortByPage(extract_headings(pages_data))]

(***************************************************************************)
(* Single calls of calculate_relevance_score, extract_subsections and      *)
(* classify_heading_level: call holds the arguments, ret is <<>> until the *)
(* call returns and <<value>> after.                                       *)
(***************************************************************************)
ScoreTitles ==
    { <<"C","o","a","s","t","a","l"," ","A","d","v","e","n","t","u","r","e","s">>,
      <<"R","e","s","e","a","r","c","h"," ","M","e","t","h","o","d","s">>,
      <<"c","o","a","s","t","a","l"," ","a","d","v","e","n","t","u","r","e","s">>,
      <<"D","a","y"," ","T","r","i","p","s">> }

ScoreContentLengths == {0, 500, 501, 1000, 1001, 1200}

ScoreSims == {-10000, -3000, 0, 3000, 6000, 10000}

InitScore ==
    /\ \E title \in ScoreTitles, n \in ScoreContentLengths, sim \in ScoreSims :
         LET section == [document |-> Str_DocName, section_title |-> title,
                         page_start |-> 1, page_end |-> 1,
                         content |-> Body(n, "b")]
         IN  /\ call = [fn |-> "calculate_relevance_score", section |-> section]
             /\ embed = [texts |-> <<section_text(section)>>, sims |-> <<sim>>]
    /\ ret = <<>>
    /\ NoPipeline
    /\ NoSegmenter

Score ==
    /\ call.fn = "calculate_relevance_score"
    /\ ret = <<>>
    /\ ret' = <<calculate_relevance_score(call.section)>>
    /\ UNCHANGED <<call, embed, pipeline_vars, seg_vars>>

NextScore == Score

SpecScore == InitScore /\ [][NextScore]_vars

\* the lengths of the pieces a section content is made of
PieceLengths == {40, 51, 101, 500, 501}

\* the most pieces a content has
MaxPieces == 2

Separators == { <<"\n", "\n">>, <<".", " ">> }

RECURSIVE JoinPieces(_, _)
JoinPieces(pieces, sep) ==
    IF pieces = <<>> THEN <<>>
    ELSE IF Len(pieces) = 1 THEN pieces[1]
    ELSE Head(pieces) \o sep \o JoinPieces(Tail(pieces), sep)

SubContents ==
    UNION {{JoinPieces([i \in 1 .. n |-> Body(lens[i], "b")], sep) :
              lens \in [1 .. n -> PieceLengths], sep \in Separators} :
           n \in 1 .. MaxPieces}

SubSims == {-3000, 3000}

InitSub ==
    /\ \E content \in SubContents :
         LET section == [document |-> Str_DocName, section_title |-> <<"D","a","y"," ","T","r","i","p","s">>,
                         page_start |-> 2, page_end |-> 3, content |-> content]
             texts == Substantial(Paragraphs(content))
         IN  /\ call = [fn |-> "extract_subsections", section |-> section,
                        top_k |-> 3]
             /\ embed \in {[texts |-> texts, sims |-> f] :
                             f \in [DOMAIN texts -> SubSims]}
    /\ ret = <<>>
    /\ NoPipeline
    /\ NoSegmenter

Subsections ==
    /\ call.fn = "extract_subsections"
    /\ ret = <<>>
    /\ ret' = <<extract_subsections(call.section, call.top_k)>>
    /\ UNCHANGED <<call, embed, pipeline_vars, seg_vars>>

NextSub == Subsections

SpecSub == InitSub /\ [][NextSub]_vars

BlockTexts ==
    { <<"5">>, <<"2","0","2","4">>, <<"A">>, <<"1","."," ","S","c","o","p","e">>, <<"O","v","e","r","v","i","e","w">>, <<"C","h","a","p","t","e","r"," ","1">>, <<" ","I","I","."," ","I","n","t","r","o"," ">> }

BlockFontSizes == {90, 110, 119, 120, 139, 140, 159, 160, 179, 180, 240}

BlockFlags == {0, 4, 16, 20}

AverageFontSizes ==
    {[sum |-> 90, n |-> 1], [sum |-> 100, n |-> 1], [sum |-> 120, n |-> 1],
     [sum |-> 205, n |-> 2]}

InitClassify ==
    /\ \E text \in BlockTexts, size \in BlockFontSizes, flags \in BlockFlags,
          avg \in AverageFontSizes :
         call = [fn |-> "classify_heading_level",
                 block |-> [text |-> text, font_size |-> size,
                            font_flags |-> flags],
                 avg_font_size |-> avg]
    /\ ret = <<>>
    /\ embed = <<>>
    /\ NoPipeline
    /\ NoSegmenter

Classify ==
    /\ call.fn = "classify_heading_level"
    /\ ret = <<>>
    /\ ret' = <<classify_heading_level(call.block, call.avg_font_size)>>
    /\ UNCHANGED <<call, embed, pipeline_vars, seg_vars>>

NextClassify == Classify

SpecClassify == InitClassify /\ [][NextClassify]_vars

(***************************************************************************)
(* Single calls of extract_title, extract_headings and extract_outline     *)
(***************************************************************************)
OutlineBlock(text, font_size, font_flags) ==
    [text |-> text, font_size |-> font_size, font_flags |-> font_flags]

\* the spans of the pages
OutlineBlocks ==
    { OutlineBlock(<<"1","."," ","S","c","o","p","e">>, 160, 0),
      OutlineBlock(<<"1","."," "," ","S","C","O","P","E">>, 160, 0),
      OutlineBlock(<<"1","."," ","S","c","o","p","e">>, 140, 0),
      OutlineBlock(<<"R","e","f","e","r","e","n","c","e","s">>, 140, 16),
      OutlineBlock(<<"A">>, 180, 0),
      OutlineBlock(<<"O","v","e","r","v","i","e","w">>, 160, 0),
      OutlineBlock(<<"2","."," ","P","l","a","n">>, 100, 0) }

OutlinePageNumbers == {1, 2}

\* the most items (a span of a page, or a page without a span) of a document
MaxItems == 3

\* a span on a page, or a page that has no span
OutlineItems ==
    {[page_number |-> n, blocks |-> <<b>>] :
       n \in OutlinePageNumbers, b \in OutlineBlocks}
      \cup {[page_number |-> n, blocks |-> <<>>] : n \in OutlinePageNumbers}

\* the pages of the items: items of one page number that follow one another
\* are one page
RECURSIVE GroupPages(_)
GroupPages(items) ==
    IF items = <<>> THEN <<>>
    ELSE LET rest == GroupPages(Tail(items))
         IN  IF rest # <<>> /\ rest[1].page_number = Head(items).page_number
               THEN <<[page_number |-> rest[1].page_number,
                       text_blocks |-> Head(items).blocks \o rest[1].text_blocks]>>
                      \o Tail(rest)
               ELSE <<[page_number |-> Head(items).page_number,
                       text_blocks |-> Head(items).blocks]>> \o rest

OutlinePagesData ==
    {GroupPages(items) :
       items \in UNION {[1 .. n -> OutlineItems] : n \in 0 .. MaxItems}}

InitOutline ==
    /\ \/ \E pages_data \in OutlinePagesData :
            \/ call = [fn |-> "extract_title", pages_data |-> pages_data]
            \/ call = [fn |-> "extract_headings", pages_data |-> pages_data]
            \/ call = [fn |-> "extract_outline", opens |-> TRUE,
                       pages_data |-> pages_data]
       \/ call = [fn |-> "extract_outline", opens |-> FALSE, pages_data |-> <<>>]
    /\ ret = <<>>
    /\ embed = <<>>
    /\ NoPipeline
    /\ NoSegmenter

ExtractTitle ==
    /\ call.fn = "extract_title"
    /\ ret = <<>>
    /\ ret' = <<extract_title(call.pages_data)>>
    /\ UNCHANGED <<call, embed, pipeline_vars, seg_vars>>

ExtractHeadings ==
    /\ call.fn = "extract_headings"
    /\ ret = <<>>
    /\ ret' = <<extract_headings(call.pages_data)>>
    /\ UNCHANGED <<call, embed, pipeline_vars, seg_vars>>

ExtractOutline ==
    /\ call.fn = "extract_outline"
    /\ ret = <<>>
    /\ ret' = <<extract_outline(call.opens, call.pages_data)>>
    /\ UNCHANGED <<call, embed, pipeline_vars, seg_vars>>

NextOutline == ExtractTitle \/ ExtractHeadings \/ ExtractOutline

SpecOutline == InitOutline /\ [][NextOutline]_vars

(***************************************************************************)
(* Properties of identify_sections                                         *)
(***************************************************************************)
\* the sections that exist: those appended to the list, then the open one
SegLive == seg_state.sections \o seg_state.current

\* the lines the ledger gives section id as content, each followed by a space
RECURSIVE LedgerContent(_, _)
LedgerContent(log, id) ==
    IF log = <<>> THEN <<>>
    ELSE (IF Head(log).role = "content" /\ Head(log).sec = id
            THEN Head(log).line \o <<" ">> ELSE <<>>)
           \o LedgerContent(Tail(log), id)

\* the non-blank lines among the first n items, stripped, in input order
RECURSIVE NonBlankLines(_)
NonBlankLines(items) ==
    IF items = <<>> THEN <<>>
    ELSE (IF Strip(Head(items).line) # <<>>
            THEN <<Strip(Head(items).line)>> ELSE <<>>)
           \o NonBlankLines(Tail(items))

SegProcessed == SubSeq(SegItems, 1, Min(seg_pos, Len(SegItems)))

\* C5: every non-blank line read so far is accounted for exactly once: the
\* ledger lists the non-blank lines in input order, each either as the title
\* line of one section or as a content line of one section; the content of
\* every section that exists is exactly its content lines in input order; a
\* discarded section has no content line; no section has two title lines
C5_LinesAccountedOnce ==
    /\ [k \in DOMAIN seg_log |-> seg_log[k].line] = NonBlankLines(SegProcessed)
    /\ \A k \in DOMAIN seg_log : seg_log[k].sec \in 1 .. SegOpened
    /\ Len(SegLive) = Len(seg_ids)
    /\ \A i \in DOMAIN seg_ids :
         /\ seg_ids[i] \notin seg_dropped
         /\ \A j \in DOMAIN seg_ids : i < j => seg_ids[i] < seg_ids[j]
    /\ \A i \in DOMAIN SegLive :
         SegLive[i].content = LedgerContent(seg_log, seg_ids[i])
    /\ \A d \in seg_dropped : LedgerContent(seg_log, d) = <<>>
    /\ \A id \in 1 .. SegOpened :
         Cardinality({k \in DOMAIN seg_log :
                        seg_log[k].role = "title" /\ seg_log[k].sec = id}) <= 1

\* identify_sections has returned two sections or more, one of them with two
\* content lines, after discarding a section, and some line was a title line
C5_Witness ==
    /\ seg_pos = Len(SegItems) + 1
    /\ Len(seg_state.sections) >= 1
    /\ seg_dropped # {}
    /\ \E k \in DOMAIN seg_log : seg_log[k].role = "title"
    /\ \E j, k \in DOMAIN seg_log :
         /\ j < k
         /\ seg_log[j].role = "content" /\ seg_log[k].role = "content"
         /\ seg_log[j].sec = seg_log[k].sec

\* C6: a line that matches the numbered marker opens a section whose title is
\* the line without its leading numbering: "3.2 Methodology Overview" gives
\* "Methodology Overview"
C6_NumberingStripped ==
    \A k \in DOMAIN seg_log :
      \A i \in DOMAIN SegLive :
        ( /\ seg_log[k].role = "title"
          /\ seg_log[k].sec = seg_ids[i]
          /\ NumberedMatchLen(seg_log[k].line) >= 0 )
        => SegLive[i].section_title =
             Strip(From(seg_log[k].line, NumberedMatchLen(seg_log[k].line)))

(***************************************************************************)
(* Properties of calculate_relevance_score                                 *)
(***************************************************************************)
Returned == ret # <<>>

\* the score before the boost for longer sections
ScoreBeforeLength ==
    KeywordBoost(PreferredBoost(embed.sims[1], call.section.section_title),
                 call.section.section_title)

\* C1: the bonus for the content length is chosen with the test for more than
\* 1000 characters first: content longer than 1000 characters multiplies the
\* score by 1.2, content of 501 to 1000 characters by 1.1
C1_LongContentBoost ==
    Returned =>
      ret[1] = Min(IF Len(call.section.content) > 1000
                     THEN (ScoreBeforeLength * 12) \div 10
                   ELSE IF Len(call.section.content) > 500
                     THEN (ScoreBeforeLength * 11) \div 10
                   ELSE ScoreBeforeLength,
                   One)

\* C2: the score returned is at most 1.0, and it is at least 0.5 when the
\* title is a preferred title and the similarity is 0
C2_ScoreBounds ==
    Returned =>
      /\ ret[1] <= One
      /\ ( /\ call.section.section_title \in preferred_sections
           /\ embed.sims[1] = 0 )
         => ret[1] >= 5000

\* a section with a preferred title, similarity 0 and a long content was scored
C2_Witness ==
    /\ Returned
    /\ call.section.section_title \in preferred_sections
    /\ embed.sims[1] = 0
    /\ Len(call.section.content) > 1000
    /\ ret[1] = 5500

(***************************************************************************)
(* Properties of extract_subsections                                       *)
(***************************************************************************)
\* C10 as claimed: every refined_text returned has at most 500 characters
C10_RefinedTextAtMost500 ==
    Returned =>
      \A i \in DOMAIN ret[1] : Len(ret[1][i].refined_text) <= 500

\* C10: every refined_text returned is a candidate paragraph of at most 500
\* characters, or the first 500 characters of a longer one followed by "...",
\* and so has at most 503 characters
C10_RefinedTextAtMost503 ==
    Returned =>
      \A i \in DOMAIN ret[1] :
        /\ Len(ret[1][i].refined_text) <= 503
        /\ \E p \in {Substantial(Paragraphs(call.section.content))[k] :
                       k \in DOMAIN Substantial(Paragraphs(call.section.content))} :
             \/ Len(p) <= 500 /\ ret[1][i].refined_text = p
             \/ /\ Len(p) > 500
                /\ ret[1][i].refined_text = SubSeq(p, 1, 500) \o <<".", ".", ".">>

\* a paragraph longer than 500 characters was returned, cut and with the ellipsis
C10_Witness ==
    /\ Returned
    /\ \E i \in DOMAIN ret[1] : Len(ret[1][i].refined_text) = 503

(***************************************************************************)
(* Properties of classify_heading_level                                    *)
(***************************************************************************)
\* C7 as claimed: a span of font size 18 or more is H1 whatever its text
C7_LargeFontAlwaysH1 ==
    (Returned /\ call.block.font_size >= 180) => ret[1] = "H1"

\* C7: a span of font size 18 or more is H1 when its stripped text has two
\* characters or more and is not a number, and is rejected otherwise
C7_LargeFontH1UnlessRejected ==
    (Returned /\ call.block.font_size >= 180) =>
      LET text == Strip(call.block.text)
      IN  IF Len(text) >= 2 /\ ~IsDigit(text)
            THEN ret[1] = "H1"
            ELSE ret[1] = "None"

\* a span of font size 18 or more, not bold, was classified H1
C7_Witness ==
    /\ Returned
    /\ call.block.font_size >= 180
    /\ ~is_bold(call.block.font_flags)
    /\ ret[1] = "H1"

(***************************************************************************)
(* Properties of analyze_documents                                         *)
(***************************************************************************)
Succeeded == pc = "done" /\ exc = None

HasPdfName(doc) ==
    doc.type = "str" /\ EndsWith(Lower(doc.path), <<".", "p", "d", "f">>)

\* the document is a file named .pdf that fitz.open cannot open
Unreadable(doc) == PathExists(doc) /\ HasPdfName(doc) /\ ~Opens(doc.path)

\* the document is a file named .pdf that opens
Readable(doc) == PathExists(doc) /\ HasPdfName(doc) /\ Opens(doc.path)

\* the number of sections of the readable documents of the list
RECURSIVE TotalSections(_)
TotalSections(documents) ==
    IF documents = <<>> THEN 0
    ELSE (IF Readable(Head(documents))
            THEN Len(identify_sections(extract_text_from_pdf(Head(documents).path)))
            ELSE 0)
           + TotalSections(Tail(documents))

WellFormedInput ==
    /\ {"documents", "persona", "job_to_be_done"} \subseteq DOMAIN input_data
    /\ \A i \in DOMAIN input_data.documents :
         input_data.documents[i].type = "str"

\* the place of element k in the stable descending order of seq
StableRank(seq, k) ==
    1 + Cardinality({j \in DOMAIN seq :
                       \/ seq[j].relevance_score > seq[k].relevance_score
                       \/ /\ seq[j].relevance_score = seq[k].relevance_score
                          /\ j < k})

\* C3: after a successful run extracted_sections has min(10, total) entries,
\* where total is the number of sections of the documents that resolve; the
\* section at place k of the concatenation is entry StableRank(k) when that is
\* at most 10, with importance_rank StableRank(k): non-increasing scores, ties
\* in concatenation order; and a run on well-formed input of which no document
\* resolves succeeds with both lists empty
C3_TopTenRanked ==
    /\ Succeeded =>
         /\ Len(concatenated) = TotalSections(input_data.documents)
         /\ Len(result.extracted_sections) = Min(10, Len(concatenated))
         /\ Len(top_sections) = Len(result.extracted_sections)
         /\ \A i, j \in DOMAIN top_sections :
              i < j => top_sections[i].relevance_score
                         >= top_sections[j].relevance_score
         /\ \A k \in DOMAIN concatenated :
              StableRank(concatenated, k) <= 10 =>
                /\ top_sections[StableRank(concatenated, k)] = concatenated[k]
                /\ result.extracted_sections[StableRank(concatenated, k)] =
                     [document |-> concatenated[k].document,
                      section_title |-> concatenated[k].section_title,
                      importance_rank |-> StableRank(concatenated, k),
                      page_number |-> concatenated[k].page_start]
    /\ ( /\ pc = "done"
         /\ WellFormedInput
         /\ \A i \in DOMAIN input_data.documents :
              ~Readable(input_data.documents[i]) /\ ~Unreadable(input_data.documents[i]) )
       => /\ exc = None
          /\ result.extracted_sections = <<>>
          /\ result.subsection_analysis = <<>>

\* a run succeeded on more than 10 sections, two of them of equal score and
\* different titles, one of these ranked and the other not
C3_Witness ==
    /\ Succeeded
    /\ Len(concatenated) > 10
    /\ \E j, k \in DOMAIN concatenated :
         /\ j < k
         /\ concatenated[j].relevance_score = concatenated[k].relevance_score
         /\ concatenated[j].section_title # concatenated[k].section_title
         /\ StableRank(concatenated, j) <= 10
         /\ StableRank(concatenated, k) > 10
    /\ \E i, j \in DOMAIN top_sections :
         top_sections[i].relevance_score > top_sections[j].relevance_score

\* C4: after a successful run subsection_analysis has min(15, n) entries, n
\* the number of subsections extract_subsections returns over the first 5 of
\* the extracted sections; they are in non-increasing order of score; and each
\* is a paragraph of one of these 5 sections
C4_SubsectionsOfTopFive ==
    Succeeded =>
      LET five == SubSeq(top_sections, 1, Min(5, Len(top_sections)))
      IN  /\ Len(result.subsection_analysis) = Min(15, Len(SubsectionsOf(five)))
          /\ Len(result.subsection_analysis) = Min(15, Len(subsection_analysis))
          /\ \A i, j \in DOMAIN subsection_analysis :
               i < j => subsection_analysis[i].relevance_score
                          >= subsection_analysis[j].relevance_score
          /\ \A i \in DOMAIN result.subsection_analysis :
               /\ result.subsection_analysis[i] =
                    [document |-> subsection_analysis[i].document,
                     refined_text |-> subsection_analysis[i].refined_text,
                     page_number |-> subsection_analysis[i].page_number]
               /\ \E k \in DOMAIN five :
                    /\ result.subsection_analysis[i].document = five[k].document
                    /\ result.subsection_analysis[i].page_number = five[k].page_start
                    /\ \E n \in DOMAIN Substantial(Paragraphs(five[k].content)) :
                         result.subsection_analysis[i].refined_text =
                           RefinedText(Substantial(Paragraphs(five[k].content))[n])

\* a run succeeded with more than 5 extracted sections, one ranked below the
\* fifth having a substantial paragraph, and two subsections of different scores
C4_Witness ==
    /\ Succeeded
    /\ Len(top_sections) > 5
    /\ \E k \in 6 .. Len(top_sections) :
         Substantial(Paragraphs(top_sections[k].content)) # <<>>
    /\ \E i, j \in DOMAIN subsection_analysis :
         subsection_analysis[i].relevance_score
           > subsection_analysis[j].relevance_score

\* C8 as claimed: a document that exists with a .pdf name and cannot be opened
\* is not fatal: unless a key is missing, a document is no string or the
\* embedding model fails, the run returns a result with extracted_sections
C8_UnreadableSkipped ==
    ( /\ pc = "done"
      /\ \E i \in DOMAIN input_data.documents :
           Unreadable(input_data.documents[i])
      /\ exc \notin {"KeyError", "TypeError", "EncodeError"} )
    => "extracted_sections" \in DOMAIN result

\* C8: a document that does not exist or has no .pdf name is skipped and is
\* not fatal: a run fails on a file only if the list has a document that exists
\* with a .pdf name and cannot be opened, and a successful run ranks the
\* sections of exactly the readable documents; a list with a document that
\* exists with a .pdf name and cannot be opened never gives a successful run
C8_OnlyMissingOrNonPdfSkipped ==
    pc = "done" =>
      /\ exc = "FileDataError" =>
           \E i \in DOMAIN input_data.documents :
             Unreadable(input_data.documents[i])
      /\ ( /\ "documents" \in DOMAIN input_data
           /\ \E i \in DOMAIN input_data.documents :
                Unreadable(input_data.documents[i]) )
         => /\ exc # None
            /\ DOMAIN result = {"error", "metadata"}
      /\ exc = None =>
           /\ Len(concatenated) = TotalSections(input_data.documents)
           /\ \A i \in DOMAIN result.extracted_sections :
                \E j \in DOMAIN input_data.documents :
                  /\ Readable(input_data.documents[j])
                  /\ result.extracted_sections[i].document =
                       Basename(input_data.documents[j].path)

\* a run skipped a file without a .pdf name, had collected the sections of a
\* document that opened, and failed on a document that exists with a .pdf
\* name and cannot be opened
C8_Witness ==
    /\ pc = "done"
    /\ exc = "FileDataError"
    /\ all_sections # <<>>
    /\ \E i \in DOMAIN input_data.documents :
         /\ i < doc_index
         /\ PathExists(input_data.documents[i])
         /\ ~HasPdfName(input_data.documents[i])
    /\ Unreadable(input_data.documents[doc_index])

\* C9: an exception raised at any step ends the run with a result of an error
\* description and metadata.processing_timestamp only; once it is raised no
\* further step of the try block runs
C9_ErrorResultOnly ==
    /\ exc # None => pc \in {"except", "done"}
    /\ (pc = "done" /\ exc # None) =>
         /\ DOMAIN result = {"error", "metadata"}
         /\ result.error = exc
         /\ DOMAIN result.metadata = {"processing_timestamp"}

\* an exception was raised at result assembly, after sections and subsections
\* had been computed, and the run has returned
C9_Witness ==
    /\ pc = "done"
    /\ exc = "TypeError"
    /\ top_sections # <<>>
    /\ subsection_analysis # <<>>

\* the call is of a span that passes the reject rule, is below every absolute
\* threshold and matches a heading pattern
PatternSpanBelowThresholds ==
    /\ call.fn = "classify_heading_level"
    /\ Len(Strip(call.block.text)) >= 2
    /\ ~IsDigit(Strip(call.block.text))
    /\ call.block.font_size < 120
    /\ is_heading_pattern(Strip(call.block.text))

\* the level the relative size alone gives
LevelBySize(font_size, avg) ==
    IF font_size * avg.n * 10 > avg.sum * 12 THEN "H1"
    ELSE IF font_size * avg.n * 10 > avg.sum * 11 THEN "H2"
    ELSE "H3"

\* C11 as claimed: such a span gets its level from its relative size alone,
\* whatever its boldness
C11_PatternLevelBySizeAlone ==
    (Returned /\ PatternSpanBelowThresholds) =>
      ret[1] = LevelBySize(call.block.font_size, call.avg_font_size)

\* C11: such a span is H1 when it is bold, whatever its size; when it is not
\* bold it is H1 if font_size > 1.2 * avg_font_size, else H2 if
\* font_size > 1.1 * avg_font_size, else H3
C11_PatternLevelBoldOrSize ==
    (Returned /\ PatternSpanBelowThresholds) =>
      IF (call.block.font_flags \div 16) % 2 = 1
        THEN ret[1] = "H1"
        ELSE ret[1] = LevelBySize(call.block.font_size, call.avg_font_size)

\* a bold span matching a pattern, not larger than the average, was made H1
C11_Witness ==
    /\ Returned
    /\ PatternSpanBelowThresholds
    /\ (call.block.font_flags \div 16) % 2 = 1
    /\ LevelBySize(call.block.font_size, call.avg_font_size) = "H3"
    /\ ret[1] = "H1"

(***************************************************************************)
(* Properties of extract_title, extract_headings and extract_outline       *)
(***************************************************************************)
\* the headings a call of extract_headings or extract_outline has returned
ReturnedHeadings ==
    IF call.fn = "extract_headings" THEN ret[1] ELSE ret[1].outline

\* the headings classified and retained, in scan order, duplicates included
ScannedHeadings ==
    RetainedHeadings(call.pages_data,
                     calculate_average_font_size(call.pages_data))

\* headings g and h have the same (text.lower(), level)
SameKey(g, h) == g.level = h.level /\ Lower(g.text) = Lower(h.text)

\* the places of the headings of scanned that no earlier one shares the key of
FirstOccurrences(scanned) ==
    {k \in DOMAIN scanned : \A j \in 1 .. k - 1 : ~SameKey(scanned[j], scanned[k])}

\* the headings of scanned at the places first, in scan order
FirstOfEachKey(scanned, first) ==
    [i \in 1 .. Cardinality(first) |->
       scanned[CHOOSE k \in first : Cardinality({j \in first : j < k}) = i - 1]]

\* C12: the headings extract_headings and extract_outline return have no two
\* of one (text.lower(), level); they are the scanned headings that are the
\* first of their key in scan order, each once, and extract_headings returns
\* them in scan order
C12_NoDuplicateFirstKept ==
    (Returned /\ call.fn \in {"extract_headings", "extract_outline"}) =>
      LET returned == ReturnedHeadings
          scanned == ScannedHeadings
          first == FirstOccurrences(scanned)
      IN  /\ \A i, j \in DOMAIN returned :
               SameKey(returned[i], returned[j]) => i = j
          /\ Len(returned) = Cardinality(first)
          /\ \A k \in first : \E i \in DOMAIN returned : returned[i] = scanned[k]
          /\ call.fn = "extract_headings" =>
               returned = FirstOfEachKey(scanned, first)

\* extract_outline returned for a document in which a heading scanned first,
\* on the later page, has the key of one scanned after it whose text differs:
\* the first is in the outline and the second is not
C12_Witness ==
    /\ Returned
    /\ call.fn = "extract_outline"
    /\ LET scanned == ScannedHeadings
       IN  \E j, k \in DOMAIN scanned :
             /\ j < k
             /\ j \in FirstOccurrences(scanned)
             /\ SameKey(scanned[j], scanned[k])
             /\ scanned[j].text # scanned[k].text
             /\ scanned[j].page > scanned[k].page
             /\ \E i \in DOMAIN ret[1].outline : ret[1].outline[i] = scanned[j]
             /\ \A i \in DOMAIN ret[1].outline : ret[1].outline[i] # scanned[k]

\* the place of heading k of seq in the stable ascending order of the pages
PageRank(seq, k) ==
    1 + Cardinality({j \in DOMAIN seq :
                       \/ seq[j].page < seq[k].page
                       \/ seq[j].page = seq[k].page /\ j < k})

\* the scanned headings left after deduplication, in scan order
DeduplicatedHeadings ==
    LET scanned == ScannedHeadings
    IN  FirstOfEachKey(scanned, FirstOccurrences(scanned))

\* C13: the outline extract_outline returns is in non-decreasing page order,
\* whatever the order of the page numbers of the pages, and it holds the
\* headings left after deduplication, those of one page in their scan order
C13_OutlineSortedStable ==
    (Returned /\ call.fn = "extract_outline") =>
      LET outline == ret[1].outline
          kept == DeduplicatedHeadings
      IN  /\ \A i, j \in DOMAIN outline :
               i < j => outline[i].page <= outline[j].page
          /\ Len(outline) = Len(kept)
          /\ \A k \in DOMAIN kept : outline[PageRank(kept, k)] = kept[k]

\* extract_outline returned for pages given with page 2 before page 1, two
\* different headings being on one page: the outline is not in scan order
C13_Witness ==
    /\ Returned
    /\ call.fn = "extract_outline"
    /\ LET kept == DeduplicatedHeadings
       IN  /\ \E i, j \in DOMAIN kept : i < j /\ kept[i].page > kept[j].page
           /\ \E i, j \in DOMAIN kept :
                i < j /\ kept[i].page = kept[j].page /\ kept[i] # kept[j]
           /\ ret[1].outline # kept

\* the spans of the first page
FirstPageBlocks == call.pages_data[1].text_blocks

\* the first of the longest stripped texts of the spans at the places given
LongestTextAt(places) ==
    Strip(FirstPageBlocks[
      CHOOSE i \in places :
        /\ \A j \in places :
             Len(Strip(FirstPageBlocks[j].text)) <= Len(Strip(FirstPageBlocks[i].text))
        /\ \A j \in places :
             j < i => Len(Strip(FirstPageBlocks[j].text))
                        < Len(Strip(FirstPageBlocks[i].text))].text)

\* the spans of the first page whose stripped text has more than 3 characters
QualifyingSpans ==
    {i \in DOMAIN FirstPageBlocks : Len(Strip(FirstPageBlocks[i].text)) > 3}

\* the places among these of the spans of the largest font size of the spans
\* at the places among
LargestAmong(places, among) ==
    {i \in places :
       \A j \in among : FirstPageBlocks[j].font_size <= FirstPageBlocks[i].font_size}

\* C14 as claimed: the title is the longest stripped text, the first of equal
\* ones, of the spans that have the largest font size of all the spans of the
\* first page and more than 3 characters; "Untitled Document" if there is no
\* page or no such span
C14_TitleAtMaximumOfAllSpans ==
    (Returned /\ call.fn = "extract_title") =>
      ret[1] = IF call.pages_data = <<>> THEN Str_Untitled
               ELSE IF LargestAmong(QualifyingSpans, DOMAIN FirstPageBlocks) = {}
                 THEN Str_Untitled
               ELSE LongestTextAt(LargestAmong(QualifyingSpans,
                                               DOMAIN FirstPageBlocks))

\* C14: the title is the longest stripped text, the first of equal ones, of
\* the spans that have the largest font size of the spans of the first page
\* with more than 3 characters; "Untitled Document" if there is no page or no
\* span of the first page has more than 3 characters
C14_TitleAtMaximumOfQualifyingSpans ==
    (Returned /\ call.fn = "extract_title") =>
      ret[1] = IF call.pages_data = <<>> THEN Str_Untitled
               ELSE IF QualifyingSpans = {} THEN Str_Untitled
               ELSE LongestTextAt(LargestAmong(QualifyingSpans, QualifyingSpans))

\* extract_title returned the text of a span although a span of at most 3
\* characters has a larger font size, and with two longest candidates
C14_Witness ==
    /\ Returned
    /\ call.fn = "extract_title"
    /\ call.pages_data # <<>>
    /\ LargestAmong(QualifyingSpans, DOMAIN FirstPageBlocks) = {}
    /\ \E i, j \in LargestAmong(QualifyingSpans, QualifyingSpans) :
         /\ i < j
         /\ Strip(FirstPageBlocks[i].text) # Strip(FirstPageBlocks[j].text)
         /\ Len(Strip(FirstPageBlocks[i].text)) = Len(Strip(FirstPageBlocks[j].text))
         /\ ret[1] = Strip(FirstPageBlocks[i].text)

(***************************************************************************)
(* Subsections of the sections identify_sections produces                  *)
(***************************************************************************)
\* the stripped content cut to 500 characters, with the ellipsis if it was cut
WholeContentCut(content) ==
    LET text == Strip(content)
    IN  IF Len(text) > 500 THEN SubSeq(text, 1, 500) \o <<".", ".", ".">>
        ELSE text

\* the subsections of section are: none when its stripped content has at most
\* 100 characters, else one, of the whole stripped content
AtMostTheWholeContent(section) ==
    LET subsections == extract_subsections(section, 3)
    IN  /\ \A i \in DOMAIN section.content : section.content[i] # "\n"
        /\ Len(subsections) <= 1
        /\ subsections # <<>> <=> Len(Strip(section.content)) > 100
        /\ \A i \in DOMAIN subsections :
             /\ subsections[i].refined_text = WholeContentCut(section.content)
             /\ subsections[i].document = section.document
             /\ subsections[i].page_number = section.page_start

\* the sections of seq whose stripped content has more than 100 characters
LongSections(seq) == {k \in DOMAIN seq : Len(Strip(seq[k].content)) > 100}

\* C15: the content of a section of identify_sections has no line break, and
\* extract_subsections gives it at most one subsection: the whole stripped
\* content, cut to 500 characters, when that has more than 100 characters,
\* and none otherwise, also when the content has sentences of more than 50
\* characters; so subsection_analysis has one entry for each of the first 5
\* extracted sections with such a content: at most 5, none cut off by top_k
\* or by the limit of 15
C15_OneSubsectionPerSection ==
    /\ \A k \in DOMAIN all_sections : AtMostTheWholeContent(all_sections[k])
    /\ Len(subsection_analysis) <= 5
    /\ pc \in {"assemble", "done"} /\ exc = None =>
         Len(subsection_analysis)
           = Cardinality(LongSections(SubSeq(top_sections, 1,
                                             Min(5, Len(top_sections)))))
    /\ Succeeded =>
         /\ Len(result.subsection_analysis) = Len(subsection_analysis)
         /\ Len(result.subsection_analysis) <= 5

\* a run succeeded with 5 subsections, one of them of a section whose content
\* is two sentences of more than 100 characters, and one of them cut
C15_Witness ==
    /\ Succeeded
    /\ Len(result.subsection_analysis) = 5
    /\ \E k \in 1 .. 5 :
         /\ Len(SelectSeq(Split(top_sections[k].content, <<".">>),
                          LAMBDA piece : Len(Strip(piece)) > 100)) = 2
         /\ Len(extract_subsections(top_sections[k], 3)) = 1
    /\ \E i \in DOMAIN result.subsection_analysis :
         Len(result.subsection_analysis[i].refined_text) = 503

====
